---- MODULE Spec2Model ----
(***************************************************************************)
(* Dual-LED adaptive lighting.                                             *)
(*                                                                         *)
(* Two programs of the repository are modelled:                            *)
(*   - the Arduino sketch AdaptiveDualLED_TCS34725.ino: its loop() is the  *)
(*     comfort-band controller (specification Spec);                       *)
(*   - the SystemC model Specification.cpp: LampModule::adjust_lamps is    *)
(*     the colour-temperature to channel-ratio mapper (specification       *)
(*     LampSpec).                                                          *)
(*                                                                         *)
(* Numbers.  The sketch computes with float.  Every light quantity of the  *)
(* sketch (ambientYellow, YOI, WOI, total, ambientTotal) is a multiple of  *)
(* 0.5 below 2^24, so it is exact in binary32; the model keeps these       *)
(* quantities in HALF-COUNTS (twice the value).  A ratio is kept as the    *)
(* pair <<numerator, denominator>> and compared by cross-multiplication.   *)
(* Where binary32 rounding decides an outcome (the comparison of a float   *)
(* with the literals 0.58 and 0.62, the truncation of                      *)
(* default_k * (1.0 - targetYellowRatio)) the model follows the binary32   *)
(* value, not the real number; the comfort nudge is computed from the      *)
(* binary32 quotient YOI / total, operation by operation.                  *)
(***************************************************************************)
EXTENDS Integers, Sequences, FiniteSets, TLC

VARIABLES
    prevYellowLED,   \* int prevYellowLED            (.ino line 30)
    prevWhiteLED,    \* int prevWhiteLED             (.ino line 31)
    inFallbackMode,  \* bool inFallbackMode          (.ino line 32)
    double64,        \* the build: TRUE when double is 64 bits wide, FALSE when
                     \* double is float (AVR); fixed for a whole behaviour
    pc,              \* position in the sketch: "setup" before setup() has
                     \* run, "nosensor" in the while (1) of line 41, "idle"
                     \* between two calls of loop(), "rebalance" inside the
                     \* while loop of lines 116-124
    r, g, b,         \* the raw counts of the reading of the current call
    isTooDark,       \* local of loop(), line 85
    isTooBright,     \* local of loop(), line 86, after the override of line 92
    newYellowLED,    \* local of loop(), line 80
    newWhiteLED,     \* local of loop(), line 81
    branch,          \* the mode the current call dispatched to
    startYellow,     \* prevYellowLED when the current call started
    startWhite,      \* prevWhiteLED when the current call started
    startFallback,   \* inFallbackMode when the current call started
    zoneBefore,      \* the zone of the call before the current one when both
                     \* readings lie inside the hysteresis margin of the same
                     \* comfort-band boundary; "none" otherwise
    darkSince,       \* a Darkness call has run and every call completed since
                     \* had a too-dark reading
    temp_target,     \* LampModule: target_color_temp.read()   (.cpp line 57)
    white_ratio,     \* LampModule: float white_ratio          (.cpp line 64)
    yellow_ratio,    \* LampModule: float yellow_ratio         (.cpp line 64)
    lampDone,        \* LampModule: adjust_lamps has run on temp_target
    measured_lux,    \* ECRL_System: ambient_lux_signal.read()  (.cpp line 107)
    measured_temp,   \* ECRL_System: ambient_color_temp_signal.read()  (line 108)
    desired_lux,     \* ECRL_System: float desired_lux          (.cpp line 115)
    clampDone,       \* ECRL_System: control_logic has run on measured_lux
    sensor           \* the counts <<r, g, b>> the colour sensor holds for the
                     \* next tcs.getRawData (used by SettleSpec only)

ctlVars == <<prevYellowLED, prevWhiteLED, inFallbackMode, double64, pc, r, g, b,
             isTooDark, isTooBright, newYellowLED, newWhiteLED, branch,
             startYellow, startWhite, startFallback, zoneBefore, darkSince>>
lampVars == <<temp_target, white_ratio, yellow_ratio, lampDone>>
ecrlVars == <<measured_lux, measured_temp, desired_lux, clampDone>>
vars == <<ctlVars, lampVars, ecrlVars, sensor>>

----------------------------------------------------------------------------
(* Program constants of the sketch *)

L_min == 150
L_max == 1000
maxLEDIntensity == 255
default_k == 50
hysteresis == 2
cutoff == 5

\* binary32 values are written as numerators over 2^24
Two24 == 2 ^ 24
\* const float targetYellowRatio = 0.6: the binary32 nearest to 0.6 is
\* 10066330 / 2^24 = 0.60000002384...
targetYellowRatio == 10066330

----------------------------------------------------------------------------
(* Arduino macros *)

min(x, y) == IF x < y THEN x ELSE y

constrain(amt, low, high) == IF amt < low THEN low ELSE IF amt > high THEN high ELSE amt

\* a scaling that leaves the level as it is (scalingFactor 1.0): the decay of
\* C7 rests on the real one
RoundScaledUnit(level) == level

\* round(level * scalingFactor) with float scalingFactor = 0.9 and level in
\* 0..255.  level * 0.9f is within half an ulp of 0.9 * level, so the float
\* product is exactly k + 0.5 whenever 0.9 * level is, and round() (half away
\* from zero, (long)(x + 0.5)) gives floor(0.9 * level + 0.5).
RoundScaled(level) == (9 * level + 5) \div 10

Downscale(level) == constrain(RoundScaled(level), 0, maxLEDIntensity)

----------------------------------------------------------------------------
(* Classification, lines 53-87.  Light quantities in half-counts. *)

ambientWhite(cr, cg, cb) == 2 * min(cr, min(cg, cb))
ambientYellow(cr, cg, cb) == cr + cg
YOI(py, cr, cg, cb) == 2 * py + ambientYellow(cr, cg, cb)
WOI(pw, cr, cg, cb) == 2 * pw + ambientWhite(cr, cg, cb)
total(py, pw, cr, cg, cb) == YOI(py, cr, cg, cb) + WOI(pw, cr, cg, cb)
ambientTotal(cr, cg, cb) == ambientYellow(cr, cg, cb) + ambientWhite(cr, cg, cb)

\* the sentinel -1 of lines 62, 113, 122
Undefined == <<-1, 1>>

\* a ratio that is undefined whenever the ambient light alone is 0: C17 rests
\* on the LED levels taking part in the total
currentYellowRatioAmbient(py, pw, cr, cg, cb) ==
    IF ambientTotal(cr, cg, cb) > 0
    THEN <<YOI(py, cr, cg, cb), total(py, pw, cr, cg, cb)>>
    ELSE Undefined

currentYellowRatio(py, pw, cr, cg, cb) ==
    IF total(py, pw, cr, cg, cb) > 0
    THEN <<YOI(py, cr, cg, cb), total(py, pw, cr, cg, cb)>>
    ELSE Undefined

\* the too-dark test without the hysteresis margin: C8 rests on the margin
TooDarkNoMargin(cr, cg, cb) == ambientTotal(cr, cg, cb) < 2 * L_min

TooDark(cr, cg, cb) == ambientTotal(cr, cg, cb) < 2 * (L_min - hysteresis)
TooBright(cr, cg, cb) == ambientTotal(cr, cg, cb) > 2 * (L_max + hysteresis)

\* `ratio < 0.58` with a float ratio.  The float nearest to 29/50 is below
\* 0.58: where double is float the literal is that same float and equality is
\* not "less"; where double is 64 bits wide the float 0.57999998 compares less
\* than the double 0.58.
Below058(q) == \/ 50 * q[1] < 29 * q[2]
               \/ double64 /\ 50 * q[1] = 29 * q[2]

\* `ratio > 0.62`: the float nearest to 31/50 is above 0.62.
Above062(q) == \/ 50 * q[1] > 31 * q[2]
               \/ double64 /\ 50 * q[1] = 31 * q[2]

----------------------------------------------------------------------------
(* Mode 1, lines 96-102: the levels of the darkness fallback.  Both are a   *)
(* float product truncated by the conversion to int.                        *)

\* default_k * targetYellowRatio = 50 * 0.60000002 = 30.000001 -> 30
fallbackYellow == (default_k * targetYellowRatio) \div Two24

\* default_k * (1.0 - targetYellowRatio) = 50 * 0.39999998 = 19.999999 -> 19
fallbackWhite == (default_k * (Two24 - targetYellowRatio)) \div Two24

----------------------------------------------------------------------------
(* Mode 2 & 3, lines 104-129 *)

\* lines 113-114 and 122-123
ratio(ny, nw) == IF ny + nw > 0 THEN <<ny, ny + nw>> ELSE Undefined

\* the condition of the while loop, line 116
OutOfBand(q) == Below058(q) \/ Above062(q)

\* the body of the while loop, lines 117-121: the pair of levels after it
RebalanceBody(ny, nw) ==
    IF Above062(ratio(ny, nw)) THEN <<Downscale(ny), nw>>
    ELSE IF Below058(ratio(ny, nw)) THEN <<ny, Downscale(nw)>>
    ELSE <<ny, nw>>

\* the while loop, lines 116-124, run from the pair <<ny, nw>>: the pair with
\* which it exits, or Diverges when it never exits.  The body is a function
\* of the pair alone and never raises a level, so the loop fails to exit
\* exactly when it meets a pair that is out of the band and that the body
\* leaves as it is.
Diverges == <<-1, -1>>

RECURSIVE Rebalance(_, _)
Rebalance(ny, nw) ==
    IF ~OutOfBand(ratio(ny, nw)) THEN <<ny, nw>>
    ELSE CHOOSE lv \in {IF nx = <<ny, nw>> THEN Diverges ELSE Rebalance(nx[1], nx[2]) :
                        nx \in {RebalanceBody(ny, nw)}} : TRUE

\* a cutoff that spares a level equal to the threshold: C14 rests on <=
CutoffBelow(ny, nw) ==
    IF ny < cutoff \/ nw < cutoff THEN <<0, 0>> ELSE <<ny, nw>>

\* a cutoff that clears only the channel that is low: C5 rests on clearing both
CutoffOneChannel(ny, nw) ==
    <<IF ny <= cutoff THEN 0 ELSE ny, IF nw <= cutoff THEN 0 ELSE nw>>

\* lines 126-128: the cutoff for very low values
Cutoff(ny, nw) ==
    LET a == IF ny <= cutoff THEN <<0, 0>> ELSE <<ny, nw>>
    IN  IF a[2] <= cutoff THEN <<0, 0>> ELSE a

----------------------------------------------------------------------------
(* binary32 values.  A value is the pair <<m, e>> standing for m / 2^e with *)
(* m odd, or with e = 0 for a whole number; so 0.0 is <<0, 0>>, 1.0 is      *)
(* <<1, 0>> and 0.5 is <<1, 1>>.  Equal values have equal pairs.  Every     *)
(* operation is computed in whole numbers below 2^31; a number of up to 48  *)
(* bits is kept as the pair <<hi, lo>> standing for hi * 2^24 + lo.         *)

RECURSIVE Canon(_, _)
Canon(m, e) ==
    IF m = 0 THEN <<0, 0>>
    ELSE IF e > 0 /\ m % 2 = 0
         THEN CHOOSE f \in {Canon(h[1], h[2]) : h \in {<<m \div 2, e - 1>>}} : TRUE
    ELSE <<m, e>>

\* the least k with p * 2^k >= q, for 0 < p
RECURSIVE Shift(_, _, _)
Shift(p, q, k) ==
    IF p >= q THEN k
    ELSE CHOOSE n \in {Shift(h[1], q, h[2]) : h \in {<<2 * p, k + 1>>}} : TRUE

\* `bits` more quotient bits of rem / q after the mantissa m: <<mantissa, remainder>>
RECURSIVE LongDiv(_, _, _, _)
LongDiv(m, rem, q, bits) ==
    IF bits = 0 THEN <<m, rem>>
    ELSE CHOOSE d \in {LongDiv(h[1], h[2], q, h[3]) :
                         h \in {IF 2 * rem >= q
                                THEN <<2 * m + 1, 2 * rem - q, bits - 1>>
                                ELSE <<2 * m, 2 * rem, bits - 1>>}} : TRUE

\* float(p) / float(q) for integers 0 < p <= q < 2^20: the quotient rounded
\* to a 24-bit mantissa, ties to even
Fl32Div(p, q) ==
    LET Quotient(k) ==
            CHOOSE f \in {Canon(IF 2 * d[2] > q \/ (2 * d[2] = q /\ d[1] % 2 = 1)
                                THEN d[1] + 1 ELSE d[1], k + 23) :
                            d \in {LongDiv(1, p * (2 ^ k) - q, q, 23)}} : TRUE
    IN  CHOOSE f \in {Quotient(k) : k \in {Shift(p, q, 0)}} : TRUE

\* the number of binary digits of n >= 0
RECURSIVE BitLen(_)
BitLen(n) ==
    IF n = 0 THEN 0
    ELSE CHOOSE k \in {1 + BitLen(h) : h \in {n \div 2}} : TRUE

Two12 == 2 ^ 12

\* x * y for 0 <= x, y < 2^24, as the pair <<hi, lo>>
Mul24(x, y) ==
    LET x1  == x \div Two12
        x0  == x % Two12
        y1  == y \div Two12
        y0  == y % Two12
        mid == x1 * y0 + x0 * y1
        low == (mid % Two12) * Two12 + x0 * y0
    IN  <<x1 * y1 + mid \div Two12 + low \div Two24, low % Two24>>

\* x - y for pairs <<hi, lo>> with x >= y
LSub(x, y) ==
    IF x[2] >= y[2] THEN <<x[1] - y[1], x[2] - y[2]>>
    ELSE <<x[1] - y[1] - 1, x[2] + Two24 - y[2]>>

\* (n[1] * 2^24 + n[2] + t) / 2^e rounded to a 24-bit mantissa, ties to even,
\* for n[1] < 2^24; t is 0, or some fraction of (0, 1) when `sticky` (then
\* n[1] > 0)
Round24(n, sticky, e) ==
    IF n[1] = 0 THEN Canon(n[2], e)
    ELSE LET Rounded(s, mant, rem, half) ==
                 CHOOSE f \in {Canon(h, e - s) :
                                 h \in {IF rem > half
                                           \/ (rem = half /\ (sticky \/ mant % 2 = 1))
                                        THEN mant + 1 ELSE mant}} : TRUE
         IN  CHOOSE f \in {Rounded(s, n[1] * (2 ^ (24 - s)) + n[2] \div (2 ^ s),
                                   n[2] % (2 ^ s), 2 ^ (s - 1)) :
                             s \in {BitLen(n[1])}} : TRUE

\* f * 2^bits as a pair <<hi, lo>>, for a binary32 f <= 1 with f[2] <= bits,
\* bits in 24 .. 48
FixPair(f, bits) ==
    IF f[2] <= bits - 24 THEN <<f[1] * (2 ^ (bits - 24 - f[2])), 0>>
    ELSE <<f[1] \div (2 ^ (f[2] - (bits - 24))),
           (f[1] % (2 ^ (f[2] - (bits - 24)))) * (2 ^ (bits - f[2]))>>

\* the binary32 difference x - y for 1 >= x >= y >= 0
Fl32Sub(x, y) ==
    CHOOSE f \in {Round24(n, FALSE, 48) :
                    n \in {LSub(FixPair(x, 48), FixPair(y, 48))}} : TRUE

\* the binary32 product x * y
Fl32Mul(x, y) ==
    CHOOSE f \in {Round24(n, FALSE, x[2] + y[2]) : n \in {Mul24(x[1], y[1])}} : TRUE


----------------------------------------------------------------------------
(* Mode 4, lines 131-148 *)

\* float currentYellowRatio = YOI / total (line 62): the binary32 quotient
RatioFloat(q) ==
    CHOOSE x \in {IF h[1] = 0 THEN <<0, 0>> ELSE Fl32Div(h[1], h[2]) : h \in {q}} : TRUE

\* the literals of lines 137 and 144 where double is float: the binary32
\* nearest to 0.6 is 10066330 / 2^24, the one nearest to 0.1 is 13421773 / 2^27
Lit06 == Canon(targetYellowRatio, 24)
Lit01 == <<13421773, 27>>
Lit255 == <<maxLEDIntensity, 0>>

\* lines 137 and 144 where double is float: three binary32 operations, each
\* rounded; x is the ratio, `white` tells line 144 from line 137
AdjustFloat(x, white) ==
    CHOOSE a \in {Fl32Mul(p, Lit255) :
                    p \in {Fl32Mul(Lit01, d) :
                             d \in {IF white THEN Fl32Sub(x, Lit06)
                                             ELSE Fl32Sub(Lit06, x)}}} : TRUE

\* lines 137 and 144 where double is 64 bits wide: the product is formed in
\* double and converted to float once.  The double operations err by less
\* than 10^-13, and 25.5 * (x - 0.6) = (255 x - 153) / 10 lies further than
\* that from every point where the conversion changes its result, so the
\* float is the one nearest to (255 x - 153) / 10.  x is at least 2^-20.
AdjustDouble(x, white) ==
    LET c == <<153 * (2 ^ 20), 0>>
        Times255(fx, p) == <<maxLEDIntensity * fx[1] + p[1], p[2]>>
        TenFold(px) == IF white THEN LSub(px, c) ELSE LSub(c, px)
    IN  CHOOSE a \in
          {Round24(<<n[1] \div 10, t \div 10>>, t % 10 > 0, 44) :
             <<n, t>> \in {<<m, (m[1] % 10) * Two24 + m[2]>> :
                m \in {TenFold(Times255(fx, Mul24(maxLEDIntensity, fx[2]))) :
                   fx \in {FixPair(x, 44)}}}} : TRUE

\* float adjust of lines 137 and 144, for a ratio outside [0.58, 0.62]
adjust(q, white) ==
    CHOOSE a \in {IF double64 THEN AdjustDouble(x, white) ELSE AdjustFloat(x, white) :
                    x \in {RatioFloat(q)}} : TRUE

\* round(f) for a float f >= 0: the macro (long)((f) + 0.5).  The sum is
\* exact where double is 64 bits wide and a binary32 sum where double is float.
RoundLong(f) ==
    IF f[2] = 0 THEN f[1]
    ELSE IF f[2] > 30 THEN 0
    ELSE IF double64 THEN (f[1] + 2 ^ (f[2] - 1)) \div (2 ^ f[2])
    ELSE CHOOSE k \in {IF s[2] > 30 THEN 0 ELSE s[1] \div (2 ^ s[2]) :
                         s \in {Round24(<<(f[1] + 2 ^ (f[2] - 1)) \div Two24,
                                          (f[1] + 2 ^ (f[2] - 1)) % Two24>>,
                                        FALSE, f[2])}} : TRUE

\* line 138: round(0.1 * (0.6 - currentYellowRatio) * maxLEDIntensity)
adjustYellow(q) == CHOOSE k \in {RoundLong(a) : a \in {adjust(q, FALSE)}} : TRUE

\* the white adjustment cut to an integer instead of rounded: C19 rests on
\* the rounding, which makes every nudge outside the band at least 1
adjustWhiteTruncated(q) ==
    CHOOSE k \in {a[1] \div (2 ^ a[2]) : a \in {adjust(q, TRUE)}} : TRUE

\* the white adjustment with the difference reversed: C18 rests on its sign
adjustWhiteReversed(q) ==
    CHOOSE k \in {0 - RoundLong(a) : a \in {adjust(q, TRUE)}} : TRUE

\* line 145: round(0.1 * (currentYellowRatio - 0.6) * maxLEDIntensity)
adjustWhite(q) == CHOOSE k \in {RoundLong(a) : a \in {adjust(q, TRUE)}} : TRUE

\* the comfort adjustment without constrain(): C1 rests on the clamp
ComfortLevelsUnclamped(py, pw, q) ==
    IF Below058(q) THEN <<py + adjustYellow(q), pw>>
    ELSE IF Above062(q) THEN <<py, pw + adjustWhite(q)>>
    ELSE <<py, pw>>

\* the pair of levels the comfort band emits
ComfortLevels(py, pw, q) ==
    IF Below058(q) THEN <<constrain(py + adjustYellow(q), 0, maxLEDIntensity), pw>>
    ELSE IF Above062(q) THEN <<py, constrain(pw + adjustWhite(q), 0, maxLEDIntensity)>>
    ELSE <<py, pw>>

----------------------------------------------------------------------------
(* The readings the sensor delivers (r, g, b of tcs.getRawData) *)

\* Spec: readings on both sides of L_min - hysteresis, inside the margins of
\* both boundaries, at the edge of the ratio band, and too bright
Readings ==
    { <<0, 0, 0>>,          \* total darkness
      <<85, 85, 62>>,       \* ambientTotal 147: too dark, not black
      <<86, 86, 63>>,       \* ambientTotal 149: inside the margin of L_min
      <<87, 87, 63>>,       \* ambientTotal 150, ambient yellow share 0.58
      <<200, 200, 100>>,    \* ambientTotal 300, ambient yellow share 2/3
      <<600, 600, 399>>,    \* ambientTotal 999: inside the margin of L_max
      <<601, 601, 400>>,    \* ambientTotal 1001: inside the margin of L_max
      <<600, 600, 600>> }   \* ambientTotal 1200: too bright

\* SatSpec: readings without blue, which drive the white level up to
\* maxLEDIntensity, with darkness and the two zones that scale it down again
SatReadings ==
    { <<0, 0, 0>>,          \* total darkness
      <<0, 0, 9>>,          \* blue only: ambientYellow 0, ambientWhite 0
      <<85, 85, 62>>,       \* ambientTotal 147: too dark, not black
      <<999, 999, 0>>,      \* ambientTotal 999, ambient yellow share 1
      <<1001, 1001, 0>>,    \* ambientTotal 1001, ambient yellow share 1
      <<600, 600, 600>>,    \* ambientTotal 1200: too bright
      <<28647, 28646, 12386>> }  \* ambientTotal 41032.5: far too bright; in
                            \* fallback mode the comfort nudge of white is
                            \* 2.5000003, which binary32 brings below 2.5

----------------------------------------------------------------------------
(* Observation of the classification, lines 83-94 *)

Zone(dark, bright) ==
    IF dark THEN "TooDark" ELSE IF bright THEN "TooBright" ELSE "Comfortable"

\* the comfort-band boundary (in half-counts) whose hysteresis margin holds
\* the ambient total of the reading, 0 when it is in neither margin
MarginOf(cr, cg, cb) ==
    LET at == ambientTotal(cr, cg, cb)
    IN  IF 2 * (L_min - hysteresis) <= at /\ at <= 2 * (L_min + hysteresis) THEN 2 * L_min
        ELSE IF 2 * (L_max - hysteresis) <= at /\ at <= 2 * (L_max + hysteresis) THEN 2 * L_max
        ELSE 0

----------------------------------------------------------------------------
(* loop(), lines 49-169 *)

CtlInit ==
    /\ prevYellowLED = 0
    /\ prevWhiteLED = 0
    /\ inFallbackMode = FALSE
    /\ double64 \in BOOLEAN
    /\ pc = "setup"
    /\ r = 0 /\ g = 0 /\ b = 0
    /\ isTooDark = FALSE
    /\ isTooBright = FALSE
    /\ newYellowLED = 0
    /\ newWhiteLED = 0
    /\ branch = "none"
    /\ startYellow = 0
    /\ startWhite = 0
    /\ startFallback = FALSE
    /\ zoneBefore = "none"
    /\ darkSince = FALSE

\* the system module idle: its signals hold their initial value 0
EcrlIdle ==
    /\ sensor = <<0, 0, 0>>
    /\ measured_lux = 0
    /\ measured_temp = 0
    /\ desired_lux = 0
    /\ clampDone = FALSE

\* the lamp module idle: its signals hold their initial value 0
Init ==
    /\ CtlInit
    /\ temp_target = 0
    /\ white_ratio = <<0, 0>>
    /\ yellow_ratio = <<0, 0>>
    /\ lampDone = FALSE
    /\ EcrlIdle

\* setup(), lines 34-47: tcs.begin() finds the sensor and setup() returns, or
\* it does not and line 41 holds the sketch for ever, so that loop() is never
\* called
setup ==
    /\ pc = "setup"
    /\ \E found \in BOOLEAN : pc' = IF found THEN "idle" ELSE "nosensor"
    /\ UNCHANGED <<prevYellowLED, prevWhiteLED, inFallbackMode, double64, r, g, b,
                   isTooDark, isTooBright, newYellowLED, newWhiteLED, branch,
                   startYellow, startWhite, startFallback, zoneBefore, darkSince,
                   lampVars, ecrlVars, sensor>>

\* the too-bright flag without the override: C4 rests on the override
OverrideIgnored(fallback, bright) == bright

\* lines 89-94: isTooBright after the special override during fallback
Override(fallback, bright) == bright /\ ~fallback

\* lines 50-94: read the sensor, classify, apply the fallback override
Enter(rd) ==
    /\ pc = "idle"
    /\ r' = rd[1] /\ g' = rd[2] /\ b' = rd[3]
    /\ startYellow' = prevYellowLED
    /\ startWhite' = prevWhiteLED
    /\ startFallback' = inFallbackMode
    /\ isTooDark' = TooDark(rd[1], rd[2], rd[3])
    /\ isTooBright' = Override(inFallbackMode, TooBright(rd[1], rd[2], rd[3]))
    /\ zoneBefore' = IF /\ branch # "none"
                        /\ MarginOf(rd[1], rd[2], rd[3]) # 0
                        /\ MarginOf(rd[1], rd[2], rd[3]) = MarginOf(r, g, b)
                     THEN Zone(isTooDark, isTooBright)
                     ELSE "none"
    /\ UNCHANGED <<double64, lampVars, ecrlVars, sensor>>

\* an exit that ignores the too-dark test: C12 rests on the test
FallbackExitAnyReading(fallback, dark, q) ==
    IF q # Undefined THEN FALSE ELSE fallback

\* an exit that never clears the flag: C16 rests on the clearing
FallbackExitNever(fallback, dark, q) == fallback

\* lines 163-166: exit fallback mode if no longer needed
FallbackExit(fallback, dark, q) ==
    IF ~dark /\ q # Undefined THEN FALSE ELSE fallback

\* lines 96-102, then 150-166
Darkness(rd) ==
    /\ Enter(rd)
    /\ currentYellowRatio(prevYellowLED, prevWhiteLED, rd[1], rd[2], rd[3]) = Undefined
    /\ branch' = "Darkness"
    /\ newYellowLED' = fallbackYellow
    /\ newWhiteLED' = fallbackWhite
    /\ prevYellowLED' = newYellowLED'
    /\ prevWhiteLED' = newWhiteLED'
    /\ inFallbackMode' = FallbackExit(TRUE, isTooDark', Undefined)
    /\ darkSince' = TRUE
    /\ pc' = "idle"

\* lines 105-129, then 150-166: a call whose while loop exits
Downscaling(rd) ==
    /\ Enter(rd)
    /\ currentYellowRatio(prevYellowLED, prevWhiteLED, rd[1], rd[2], rd[3]) # Undefined
    /\ isTooDark' \/ isTooBright'
    /\ \E lv \in {Rebalance(Downscale(prevYellowLED), Downscale(prevWhiteLED))} :
           /\ lv # Diverges
           /\ newYellowLED' = Cutoff(lv[1], lv[2])[1]
           /\ newWhiteLED' = Cutoff(lv[1], lv[2])[2]
    /\ branch' = "Downscale"
    /\ prevYellowLED' = newYellowLED'
    /\ prevWhiteLED' = newWhiteLED'
    /\ inFallbackMode' = FallbackExit(inFallbackMode, isTooDark',
            currentYellowRatio(prevYellowLED, prevWhiteLED, rd[1], rd[2], rd[3]))
    /\ darkSince' = (darkSince /\ isTooDark')
    /\ pc' = "idle"

\* lines 105-116: a call whose while loop never exits; control stays in the loop
DownscalingHangs(rd) ==
    /\ Enter(rd)
    /\ currentYellowRatio(prevYellowLED, prevWhiteLED, rd[1], rd[2], rd[3]) # Undefined
    /\ isTooDark' \/ isTooBright'
    /\ Rebalance(Downscale(prevYellowLED), Downscale(prevWhiteLED)) = Diverges
    /\ branch' = "Downscale"
    /\ newYellowLED' = Downscale(prevYellowLED)
    /\ newWhiteLED' = Downscale(prevWhiteLED)
    /\ pc' = "rebalance"
    /\ UNCHANGED <<prevYellowLED, prevWhiteLED, inFallbackMode, darkSince>>

\* lines 116-124: one iteration of a while loop that never exits
RebalanceIter ==
    /\ pc = "rebalance"
    /\ OutOfBand(ratio(newYellowLED, newWhiteLED))
    /\ newYellowLED' = RebalanceBody(newYellowLED, newWhiteLED)[1]
    /\ newWhiteLED' = RebalanceBody(newYellowLED, newWhiteLED)[2]
    /\ UNCHANGED <<prevYellowLED, prevWhiteLED, inFallbackMode, double64, pc, r, g, b,
                   isTooDark, isTooBright, branch, startYellow, startWhite,
                   startFallback, zoneBefore, darkSince, lampVars, ecrlVars, sensor>>

\* lines 131-148, then 150-166
Comfort(rd) ==
    /\ Enter(rd)
    /\ currentYellowRatio(prevYellowLED, prevWhiteLED, rd[1], rd[2], rd[3]) # Undefined
    /\ ~(isTooDark' \/ isTooBright')
    /\ branch' = "Comfort"
    /\ \E lv \in {ComfortLevels(prevYellowLED, prevWhiteLED,
                   currentYellowRatio(prevYellowLED, prevWhiteLED, rd[1], rd[2], rd[3]))} :
           /\ newYellowLED' = lv[1]
           /\ newWhiteLED' = lv[2]
    /\ prevYellowLED' = newYellowLED'
    /\ prevWhiteLED' = newWhiteLED'
    /\ inFallbackMode' = FallbackExit(inFallbackMode, isTooDark',
            currentYellowRatio(prevYellowLED, prevWhiteLED, rd[1], rd[2], rd[3]))
    /\ darkSince' = (darkSince /\ isTooDark')
    /\ pc' = "idle"

\* one call of loop() on the reading rd, or one more turn of a loop that hangs
Call(rd) ==
    \/ Darkness(rd)
    \/ Downscaling(rd)
    \/ DownscalingHangs(rd)
    \/ Comfort(rd)

Next ==
    \/ setup
    \/ \E rd \in Readings : Call(rd)
    \/ RebalanceIter

Spec == Init /\ [][Next]_vars

SatNext ==
    \/ setup
    \/ \E rd \in SatReadings : Call(rd)
    \/ RebalanceIter

SatSpec == Init /\ [][SatNext]_vars

\* SettleSpec: darkness and two comfortable readings without blue, one that
\* a white level below the maximum brings into the ratio band and one that no
\* white level can.  The light on the sensor changes when it will; the
\* Arduino core calls setup() once and, when setup() returns, loop() again
\* and again, forever, so a step the sketch can take is taken, and a call
\* reads what the sensor holds.  A sketch held in setup() takes no step.
SettleReadings ==
    { <<0, 0, 0>>,          \* total darkness
      <<360, 360, 0>>,      \* ambientTotal 360: in band with white near 221
      <<999, 999, 0>> }     \* ambientTotal 999: out of band even at white 255

\* the light on the sensor changes
Sense(rd) ==
    /\ sensor' = rd
    /\ UNCHANGED <<ctlVars, lampVars, ecrlVars>>

\* the core runs setup(), then loop() again and again; or the loop the sketch
\* is caught in turns once more
Run == setup \/ Call(sensor) \/ RebalanceIter

SettleNext ==
    \/ \E rd \in SettleReadings : Sense(rd)
    \/ Run

SettleSpec == Init /\ [][SettleNext]_vars /\ WF_vars(Run)

----------------------------------------------------------------------------
(* LampModule: binary32 subtraction from 1.0 *)

\* 1.0 - f for a binary32 f in [0, 1]: the difference is formed exactly (in
\* double, or as a float subtraction) and rounded to binary32, ties to even
Fl32OneMinus(f) ==
    IF f[2] <= 24 THEN Canon(2 ^ f[2] - f[1], f[2])
    ELSE LET s    == f[2] - 24
             a    == f[1] \div (2 ^ s)
             rest == f[1] % (2 ^ s)
             low  == Two24 - a - 1
             M    == IF 2 * rest < 2 ^ s THEN low + 1
                     ELSE IF 2 * rest > 2 ^ s THEN low
                     ELSE IF low % 2 = 0 THEN low ELSE low + 1
         IN  Canon(M, 24)

----------------------------------------------------------------------------
(* LampModule::adjust_lamps, Specification.cpp lines 55-79: the ratios *)

warm_temp == 2700
cool_temp == 6500

\* an interpolation that divides by cool_temp instead of the span: C10 rests
\* on the span
RatioMapCoolDenominator(temp) ==
    IF temp <= warm_temp THEN <<Canon(0, 0), Canon(1, 0)>>
    ELSE IF temp >= cool_temp THEN <<Canon(1, 0), Canon(0, 0)>>
    ELSE LET factor == Fl32Div(temp - warm_temp, cool_temp)
         IN  <<factor, Fl32OneMinus(factor)>>

\* lines 66-79: <<white_ratio, yellow_ratio>> for the target temperature
RatioMap(temp) ==
    IF temp <= warm_temp THEN <<Canon(0, 0), Canon(1, 0)>>
    ELSE IF temp >= cool_temp THEN <<Canon(1, 0), Canon(0, 0)>>
    ELSE LET factor == Fl32Div(temp - warm_temp, cool_temp - warm_temp)
         IN  <<factor, Fl32OneMinus(factor)>>

\* the target temperatures: the initial value 0 of the signal, and a range
\* around the sensor's 2700..6500
TempLow == 2600
TempHigh == 6600
TempTargets == {0} \cup (TempLow .. TempHigh)

LampInit ==
    /\ CtlInit
    /\ temp_target \in TempTargets
    /\ white_ratio = <<0, 0>>
    /\ yellow_ratio = <<0, 0>>
    /\ lampDone = FALSE
    /\ EcrlIdle

adjust_lamps ==
    /\ ~lampDone
    /\ white_ratio' = RatioMap(temp_target)[1]
    /\ yellow_ratio' = RatioMap(temp_target)[2]
    /\ lampDone' = TRUE
    /\ UNCHANGED <<temp_target, ctlVars, ecrlVars, sensor>>

LampNext == adjust_lamps

LampSpec == LampInit /\ [][LampNext]_vars

----------------------------------------------------------------------------
(* ECRL_System::control_logic, Specification.cpp lines 106-127 *)

min_lux == 200
max_lux == 1300

\* a clamp that saturates below only: C11 rests on both ends
ClampLowerOnly(lux) == IF lux < min_lux THEN min_lux ELSE lux

\* lines 114-122: the desired total intensity for a measured illuminance
Clamp(lux) ==
    IF lux < min_lux THEN min_lux
    ELSE IF lux > max_lux THEN max_lux
    ELSE lux

\* the measured illuminances (whole lux, as the sensor module writes them)
LuxLow == 0
LuxHigh == 1500
MeasuredLux == LuxLow .. LuxHigh

\* measured temperatures: the two limits and one between
MeasuredTemps == {warm_temp, 4500, cool_temp}

EcrlInit ==
    /\ CtlInit
    /\ temp_target = 0
    /\ white_ratio = <<0, 0>>
    /\ yellow_ratio = <<0, 0>>
    /\ lampDone = FALSE
    /\ measured_lux \in MeasuredLux
    /\ measured_temp \in MeasuredTemps
    /\ desired_lux = 0
    /\ clampDone = FALSE
    /\ sensor = <<0, 0, 0>>

\* lines 106-127: clamp the illuminance, pass the temperature on to the lamp
control_logic ==
    /\ ~clampDone
    /\ desired_lux' = Clamp(measured_lux)
    /\ temp_target' = measured_temp
    /\ clampDone' = TRUE
    /\ UNCHANGED <<measured_lux, measured_temp, white_ratio, yellow_ratio,
                   lampDone, ctlVars, sensor>>

EcrlNext == control_logic

EcrlSpec == EcrlInit /\ [][EcrlNext]_vars

----------------------------------------------------------------------------
(* Helpers of the properties *)

\* round(x) of a non-negative x = n / d in real arithmetic
RoundHalfUp(n, d) == (2 * n + d) \div (2 * d)

\* a call of loop() has run to its end
Completed == pc = "idle" /\ branch # "none"

\* the ratio the current call computed at line 62
StartRatio == currentYellowRatio(startYellow, startWhite, r, g, b)

\* q lies in [0.58, 0.62], in real arithmetic
InBand(q) == 29 * q[2] <= 50 * q[1] /\ 50 * q[1] <= 31 * q[2]

\* a binary32 value of [0, 2) in fixed point: value * 2^36 = hi * 2^18 + lo
Two18 == 2 ^ 18
Fix(f) ==
    IF f[2] <= 18 THEN <<f[1] * (2 ^ (18 - f[2])), 0>>
    ELSE <<f[1] \div (2 ^ (f[2] - 18)), (f[1] % (2 ^ (f[2] - 18))) * (2 ^ (36 - f[2]))>>

FixLeq(x, y) == x[1] < y[1] \/ (x[1] = y[1] /\ x[2] <= y[2])

\* the float sum x + y is 1.0: the exact sum lies in [1 - 2^-25, 1 + 2^-24],
\* the reals that round to 1.0 (both ends are ties, and 1.0 is the even one)
SumIsOne(x, y) ==
    LET lo == Fix(x)[2] + Fix(y)[2]
        s  == <<Fix(x)[1] + Fix(y)[1] + lo \div Two18, lo % Two18>>
    IN  /\ FixLeq(<<Two18 - 1, Two18 - 2 ^ 11>>, s)
        /\ FixLeq(s, <<Two18, 2 ^ 12>>)

\* f is within 2^-25 (half a unit in the last place below 1.0) of n / d
NearQuotient(f, n, d) ==
    LET dh == d * Fix(f)[1] - n * Two18
    IN  /\ -2 * d <= dh /\ dh <= 2 * d
        /\ -(d * 2 ^ 11) <= dh * Two18 + d * Fix(f)[2]
        /\ dh * Two18 + d * Fix(f)[2] <= d * 2 ^ 11

\* 0 <= f <= 1
InUnit(f) == 0 <= f[1] /\ FixLeq(Fix(f), <<Two18, 0>>)

----------------------------------------------------------------------------
(* C1 (SatSpec).  After every call of loop(), whichever mode it took, both *)
(* emitted levels lie in 0 .. maxLEDIntensity.                             *)
C1_LevelsInRange ==
    /\ prevYellowLED \in 0 .. maxLEDIntensity
    /\ prevWhiteLED \in 0 .. maxLEDIntensity
    /\ newYellowLED \in 0 .. maxLEDIntensity
    /\ newWhiteLED \in 0 .. maxLEDIntensity

\* a comfort call whose nudge would have carried white beyond the maximum
C1_Witness ==
    /\ Completed
    /\ branch = "Comfort"
    /\ Above062(StartRatio)
    /\ startWhite + adjustWhite(StartRatio) > maxLEDIntensity
    /\ prevWhiteLED = maxLEDIntensity

(* C2 (Spec).  Every call completes: whenever control is inside the        *)
(* ratio-rebalancing while loop, the loop reaches its exit after finitely  *)
(* many iterations.                                                        *)
C2_CycleCompletes ==
    pc = "rebalance" => Rebalance(newYellowLED, newWhiteLED) # Diverges

(* C3 (Spec).  A call whose combined total is 0 takes the Darkness mode,   *)
(* emits yellow = default_k * 0.6 = 30 and white = default_k * 0.4 = 20,   *)
(* and leaves inFallbackMode set.                                          *)
C3_DarknessStep ==
    (Completed /\ total(startYellow, startWhite, r, g, b) = 0)
        => /\ branch = "Darkness"
           /\ 5 * prevYellowLED = 3 * default_k
           /\ 5 * prevWhiteLED = 2 * default_k
           /\ inFallbackMode

(* C4 (Spec).  A call that starts in fallback mode on a too-bright reading *)
(* runs the comfort mode, not the downscale, and lowers neither level.     *)
C4_FallbackOverride ==
    (branch # "none" /\ startFallback /\ TooBright(r, g, b))
        => /\ pc = "idle"
           /\ branch = "Comfort"
           /\ prevYellowLED >= startYellow
           /\ prevWhiteLED >= startWhite

C4_Witness ==
    /\ Completed
    /\ startFallback
    /\ TooBright(r, g, b)
    /\ branch = "Comfort"

(* C5 (Spec).  A completed too-dark or too-bright call emits (0, 0) or a   *)
(* pair whose yellow share lies in [0.58, 0.62].                           *)
C5_DownscalePost ==
    (Completed /\ branch = "Downscale")
        => \/ prevYellowLED = 0 /\ prevWhiteLED = 0
           \/ InBand(<<prevYellowLED, prevYellowLED + prevWhiteLED>>)

\* a downscale that had to rebalance and ended above the cutoff
C5_Witness ==
    /\ Completed
    /\ branch = "Downscale"
    /\ OutOfBand(ratio(Downscale(startYellow), Downscale(startWhite)))
    /\ prevYellowLED > 0

(* C6 (Spec).  A comfort call whose currentYellowRatio lies in             *)
(* [0.58, 0.62] leaves both levels as they were.                           *)
C6_IdempotentInBand ==
    (Completed /\ branch = "Comfort" /\ InBand(StartRatio))
        => /\ prevYellowLED = startYellow
           /\ prevWhiteLED = startWhite

(* C7 (Spec), as claimed.  A call that starts and ends in fallback mode    *)
(* emits the default fallback levels, yellow 30 and white 20.              *)
C7_FallbackHoldsDefaults ==
    (Completed /\ startFallback /\ inFallbackMode)
        => /\ 5 * prevYellowLED = 3 * default_k
           /\ 5 * prevWhiteLED = 2 * default_k

(* C7 (Spec), amended.  A call that starts and ends in fallback mode had a *)
(* too-dark reading and is either a Darkness call, which emits the levels  *)
(* of lines 99-100 again, or a downscale call, which raises neither level  *)
(* and lowers their sum.                                                   *)
C7_FallbackDecays ==
    (Completed /\ startFallback /\ inFallbackMode)
        => /\ isTooDark
           /\ \/ /\ branch = "Darkness"
                 /\ startYellow = 0 /\ startWhite = 0
                 /\ prevYellowLED = fallbackYellow
                 /\ prevWhiteLED = fallbackWhite
              \/ /\ branch = "Downscale"
                 /\ prevYellowLED <= startYellow
                 /\ prevWhiteLED <= startWhite
                 /\ prevYellowLED + prevWhiteLED < startYellow + startWhite

C7_Witness ==
    /\ Completed
    /\ startFallback
    /\ inFallbackMode
    /\ branch = "Downscale"
    /\ prevYellowLED > 0
    /\ prevYellowLED < fallbackYellow

(* C8 (Spec).  When two successive readings lie inside the hysteresis      *)
(* margin of the same comfort-band boundary, the second call classifies    *)
(* its reading in the zone of the first.                                   *)
C8_NoFlapping ==
    zoneBefore # "none" => Zone(isTooDark, isTooBright) = zoneBefore

\* the second of two readings in the margin of L_min, itself below L_min
C8_Witness ==
    /\ zoneBefore # "none"
    /\ MarginOf(r, g, b) = 2 * L_min
    /\ ambientTotal(r, g, b) < 2 * L_min
    /\ Zone(isTooDark, isTooBright) = "Comfortable"

(* C9 (LampSpec).  For the target temperature 4500 K the white ratio and   *)
(* the yellow ratio are both 0.5.                                          *)
C9_WorkedExample ==
    (lampDone /\ temp_target = 4500)
        => /\ white_ratio = <<1, 1>>
           /\ yellow_ratio = <<1, 1>>

(* C10 (LampSpec).  Both ratios lie in [0, 1] and their float sum is 1.0;  *)
(* they are (0, 1) up to warm_temp and (1, 0) from cool_temp on; strictly  *)
(* between, the white ratio is (temp - warm) / (cool - warm), as close as  *)
(* binary32 represents it, and lies strictly between 0 and 1.              *)
C10_RatioContract ==
    lampDone
        => /\ InUnit(white_ratio) /\ InUnit(yellow_ratio)
           /\ SumIsOne(white_ratio, yellow_ratio)
           /\ temp_target <= warm_temp
                => white_ratio = <<0, 0>> /\ yellow_ratio = <<1, 0>>
           /\ temp_target >= cool_temp
                => white_ratio = <<1, 0>> /\ yellow_ratio = <<0, 0>>
           /\ (warm_temp < temp_target /\ temp_target < cool_temp)
                => /\ NearQuotient(white_ratio, temp_target - warm_temp,
                                   cool_temp - warm_temp)
                   /\ white_ratio # <<0, 0>> /\ white_ratio # <<1, 0>>

\* an interpolated temperature whose 1.0 - factor had to be rounded
C10_Witness ==
    /\ lampDone
    /\ warm_temp < temp_target /\ temp_target < cool_temp
    /\ white_ratio[2] > 24

(* C11 (EcrlSpec).  The desired illuminance is the measured one inside     *)
(* [min_lux, max_lux], min_lux below it and max_lux above it; it always    *)
(* lies in [min_lux, max_lux], and clamping it again changes nothing.      *)
C11_IntensityClamp ==
    clampDone
        => /\ (min_lux <= measured_lux /\ measured_lux <= max_lux)
                => desired_lux = measured_lux
           /\ measured_lux < min_lux => desired_lux = min_lux
           /\ measured_lux > max_lux => desired_lux = max_lux
           /\ min_lux <= desired_lux /\ desired_lux <= max_lux
           /\ Clamp(desired_lux) = desired_lux

\* a measured illuminance above the range, saturated
C11_Witness ==
    /\ clampDone
    /\ measured_lux > max_lux
    /\ desired_lux = max_lux

(* C12 (Spec).  After a completed call inFallbackMode is FALSE when the    *)
(* reading was not too dark and the combined total was not 0, TRUE when    *)
(* the call took the Darkness mode, and otherwise (too dark, total not 0)  *)
(* what it was when the call started.                                      *)
C12_FallbackUpdate ==
    Completed
        => /\ (~TooDark(r, g, b) /\ total(startYellow, startWhite, r, g, b) # 0)
                => ~inFallbackMode
           /\ branch = "Darkness" => inFallbackMode
           /\ (TooDark(r, g, b) /\ total(startYellow, startWhite, r, g, b) # 0)
                => inFallbackMode = startFallback

\* a too-dark call that started in fallback, kept the flag and reached (0, 0)
C12_Witness ==
    /\ Completed
    /\ TooDark(r, g, b)
    /\ total(startYellow, startWhite, r, g, b) # 0
    /\ startFallback
    /\ inFallbackMode
    /\ prevYellowLED = 0

\* the larger of two levels
Larger(x, y) == IF x > y THEN x ELSE y

\* one turn of the loop body on (ny, nw) lowers the larger of the two levels
Shrinks(ny, nw) ==
    Larger(RebalanceBody(ny, nw)[1], RebalanceBody(ny, nw)[2]) < Larger(ny, nw)

(* C13 (Spec).  Every iteration of the rebalancing loop strictly reduces   *)
(* the larger of the two levels: the first iteration of a downscale call   *)
(* does, and so does every iteration of a call that is inside the loop.    *)
C13_LoopVariant ==
    /\ (branch = "Downscale"
          /\ OutOfBand(ratio(Downscale(startYellow), Downscale(startWhite))))
        => Shrinks(Downscale(startYellow), Downscale(startWhite))
    /\ (pc = "rebalance" /\ OutOfBand(ratio(newYellowLED, newWhiteLED)))
        => Shrinks(newYellowLED, newWhiteLED)

\* the pair the while loop of the current downscale call ended with
Rebalanced == Rebalance(Downscale(startYellow), Downscale(startWhite))

(* C14 (Spec).  After a completed too-dark or too-bright call: if either   *)
(* rebalanced level is at most 5, both emitted levels are 0; no emitted    *)
(* level lies in 1 .. 5; and yellow is 0 exactly when white is 0.          *)
C14_CutoffRule ==
    (Completed /\ branch = "Downscale")
        => /\ (Rebalanced[1] <= cutoff \/ Rebalanced[2] <= cutoff)
                => (prevYellowLED = 0 /\ prevWhiteLED = 0)
           /\ (Rebalanced[1] > cutoff /\ Rebalanced[2] > cutoff)
                => (prevYellowLED = Rebalanced[1] /\ prevWhiteLED = Rebalanced[2])
           /\ prevYellowLED \notin 1 .. cutoff
           /\ prevWhiteLED \notin 1 .. cutoff
           /\ (prevYellowLED = 0) <=> (prevWhiteLED = 0)

\* a call whose loop ended in band with white exactly at the threshold
C14_Witness ==
    /\ Completed
    /\ branch = "Downscale"
    /\ Rebalanced[1] > cutoff
    /\ Rebalanced[2] = cutoff
    /\ prevYellowLED = 0
    /\ prevWhiteLED = 0

\* round(0.1 * (0.6 - q) * 255) and round(0.1 * (q - 0.6) * 255) in real
\* arithmetic, halves rounded away from zero
nudgeYellow(q) == RoundHalfUp(51 * (3 * q[2] - 5 * q[1]), 10 * q[2])
nudgeWhite(q) == RoundHalfUp(51 * (5 * q[1] - 3 * q[2]), 10 * q[2])

(* C15 (Spec).  A comfort call with currentYellowRatio < 0.58 emits yellow *)
(* = constrain(prevYellow + round(0.1 * (0.6 - ratio) * 255), 0, 255) and  *)
(* leaves white; with currentYellowRatio > 0.62 it emits white =           *)
(* constrain(prevWhite + round(0.1 * (ratio - 0.6) * 255), 0, 255) and     *)
(* leaves yellow.                                                          *)
C15_ComfortNudge ==
    (Completed /\ branch = "Comfort")
        => /\ 50 * StartRatio[1] < 29 * StartRatio[2]
                => /\ prevYellowLED = constrain(startYellow + nudgeYellow(StartRatio),
                                                0, maxLEDIntensity)
                   /\ prevWhiteLED = startWhite
           /\ 50 * StartRatio[1] > 31 * StartRatio[2]
                => /\ prevWhiteLED = constrain(startWhite + nudgeWhite(StartRatio),
                                               0, maxLEDIntensity)
                   /\ prevYellowLED = startYellow

\* the last completed call started in fallback on a too-bright reading
OverrideFired == Completed /\ startFallback /\ TooBright(r, g, b)

(* C16 (Spec).  The fallback override is one-shot: when inFallbackMode is  *)
(* set, a Darkness call has run and every call since had a too-dark        *)
(* reading; after a call in which the override fired inFallbackMode is     *)
(* clear; and a too-bright reading that follows such a call is sent to the *)
(* downscale.                                                              *)
C16_OneShotOverride ==
    /\ [](inFallbackMode => darkSince)
    /\ [](OverrideFired => ~inFallbackMode)
    /\ [][(OverrideFired /\ TooBright(r', g', b')) => branch' = "Downscale"]_vars

\* the override has fired: the call ran the comfort mode and cleared the flag
C16_Witness ==
    /\ OverrideFired
    /\ ~inFallbackMode
    /\ ~darkSince

(* C17 (SatSpec).  The Darkness mode is taken only by a call whose         *)
(* previous levels are both 0 and whose red and green counts are both 0;   *)
(* a call that starts with a level above 0 never takes it, however dark    *)
(* the reading.                                                            *)
C17_DarknessOnlyFromZero ==
    /\ branch = "Darkness"
        => /\ startYellow = 0 /\ startWhite = 0
           /\ r = 0 /\ g = 0
    /\ (branch # "none" /\ (startYellow > 0 \/ startWhite > 0))
        => branch # "Darkness"

\* the Darkness mode taken on a reading that has blue light only
C17_Witness ==
    /\ Completed
    /\ branch = "Darkness"
    /\ b > 0
    /\ inFallbackMode

(* C18 (Spec).  A completed too-dark or too-bright call raises neither     *)
(* level, a comfort call lowers neither level, and a level that rose was   *)
(* raised by the Darkness or the comfort mode.                             *)
C18_OneDirection ==
    Completed
        => /\ branch = "Downscale"
                => (prevYellowLED <= startYellow /\ prevWhiteLED <= startWhite)
           /\ branch = "Comfort"
                => (prevYellowLED >= startYellow /\ prevWhiteLED >= startWhite)
           /\ (prevYellowLED > startYellow \/ prevWhiteLED > startWhite)
                => branch \in {"Darkness", "Comfort"}

\* a too-dark reading outside fallback that lowered both levels
C18_Witness ==
    /\ Completed
    /\ branch = "Downscale"
    /\ TooDark(r, g, b)
    /\ ~startFallback
    /\ prevYellowLED < startYellow
    /\ prevWhiteLED < startWhite
    /\ prevWhiteLED > 0

\* the last completed call was a comfort call that changed no level
Stable ==
    /\ Completed
    /\ branch = "Comfort"
    /\ prevYellowLED = startYellow
    /\ prevWhiteLED = startWhite

\* readings the classification of lines 85-87 finds comfortable
ComfortableReadings ==
    {rd \in SettleReadings : /\ ~TooDark(rd[1], rd[2], rd[3])
                             /\ ~TooBright(rd[1], rd[2], rd[3])}

(* C19 (SettleSpec).  When from some call on every call reads one constant *)
(* comfortable reading, the levels eventually stop changing; at such a     *)
(* fixed point the ratio lies in [0.58, 0.62] or the channel being nudged  *)
(* is at 255; and a comfort call whose ratio is outside the band raises    *)
(* the nudged channel by at least 1 unless it is at 255 already.           *)
C19_ComfortConverges ==
    /\ \A rd \in ComfortableReadings :
          <>[](<<r, g, b>> = rd) => <>[]Stable
    /\ [](Stable => \/ InBand(StartRatio)
                    \/ Above062(StartRatio) /\ prevWhiteLED = maxLEDIntensity
                    \/ Below058(StartRatio) /\ prevYellowLED = maxLEDIntensity)
    /\ []((Completed /\ branch = "Comfort")
            => /\ (50 * StartRatio[1] < 29 * StartRatio[2]
                     /\ startYellow < maxLEDIntensity)
                    => prevYellowLED >= startYellow + 1
               /\ (50 * StartRatio[1] > 31 * StartRatio[2]
                     /\ startWhite < maxLEDIntensity)
                    => prevWhiteLED >= startWhite + 1)

\* a fixed point inside the band that white had to be raised to reach
C19_Witness ==
    /\ Stable
    /\ InBand(StartRatio)
    /\ prevWhiteLED > 200
    /\ ~Above062(currentYellowRatio(startYellow, startWhite, r, g, b))
    /\ Above062(currentYellowRatio(startYellow, startWhite - 2, r, g, b))

\* the sensor has held total darkness at every call so far
AllBlack == sensor = <<0, 0, 0>> /\ r = 0 /\ g = 0 /\ b = 0

\* setup() has returned: the sensor was found and loop() is being called
SensorFound == pc \in {"idle", "rebalance"}

\* the last completed call emitted yellow 30 and white 20
EmitsDefaults ==
    /\ Completed
    /\ 5 * prevYellowLED = 3 * default_k
    /\ 5 * prevWhiteLED = 2 * default_k

\* the last completed call emitted (0, 0)
EmitsZero == Completed /\ prevYellowLED = 0 /\ prevWhiteLED = 0

(* C20 (SettleSpec).  Under sustained total darkness from the initial      *)
(* state, with the sensor found so that readings are taken, the output     *)
(* never settles: the fallback levels yellow 30 and white 20 and the       *)
(* levels (0, 0) are both emitted infinitely often.                        *)
C20_DarknessCycle ==
    ([]AllBlack /\ <>SensorFound) => ([]<>EmitsDefaults /\ []<>EmitsZero)

====
